---- MODULE Spec2Model ----
(***************************************************************************)
(* Model of src/agents/models.py: the pydantic (v1 API: validator,         *)
(* root_validator) records FlightQuery, Airport, FlightOffer and           *)
(* SearchResults, their field validators, their root validators, and the   *)
(* wall clock that validate_departure_date reads.                          *)
(*                                                                         *)
(* Strings are sequences of one-character strings, so that strip, upper,   *)
(* the regular expressions and strptime are computed character by          *)
(* character.  Error messages are sequences of words, so that "the message *)
(* contains ..." is a real (case-sensitive) sub-sequence test.  An         *)
(* Optional value is a set with at most one element: None is {}.           *)
(***************************************************************************)
EXTENDS Integers, Sequences, FiniteSets, TLC

VARIABLES now, call, result, prev

vars == <<now, call, result, prev>>

\* ------------------------------------------------------------------ bounds

\* Number of half-day steps the wall clock takes.
MaxTicks == 2
\* Longest raw string handed to Airport.iata_code.
MaxCodeLen == 4
\* Longest offer list handed to SearchResults.
MaxFlights == 3
\* Longest outbound segment list handed to FlightOffer.
MaxSegments == 2

\* ------------------------------------------------------- Optional values

None == {}

Some(x) == {x}

The(o) == CHOOSE x \in o : TRUE

\* Python truthiness of an Optional[str]: None and "" are falsy.
Truthy(o) == o # None /\ The(o) # <<>>

\* dict.get(key, default) on the dict of fields that passed validation.
Get(values, key, default) == IF key \in DOMAIN values THEN values[key] ELSE default

Min(S) == CHOOSE x \in S : \A y \in S : x <= y

Max(S) == CHOOSE x \in S : \A y \in S : x >= y

\* ------------------------------------------------------------ characters

Whitespace == {" "}

Digits == {"0", "1", "2", "3", "4", "5", "6", "7", "8", "9"}

LowerLetters == <<"a", "b", "c", "d", "e", "f", "g", "h", "i", "j", "k", "l", "m",
                  "n", "o", "p", "q", "r", "s", "t", "u", "v", "w", "x", "y", "z">>

UpperLetters == <<"A", "B", "C", "D", "E", "F", "G", "H", "I", "J", "K", "L", "M",
                  "N", "O", "P", "Q", "R", "S", "T", "U", "V", "W", "X", "Y", "Z">>

AZ == {UpperLetters[i] : i \in 1..Len(UpperLetters)}

UpperChar(c) ==
    IF \E i \in 1..Len(LowerLetters) : LowerLetters[i] = c
    THEN UpperLetters[CHOOSE i \in 1..Len(LowerLetters) : LowerLetters[i] = c]
    ELSE c

\* str.upper()
Upper(s) == [i \in 1..Len(s) |-> UpperChar(s[i])]

\* str.strip()
Strip(s) ==
    LET keep == {i \in 1..Len(s) : s[i] \notin Whitespace}
    IN  IF keep = {} THEN <<>> ELSE SubSeq(s, Min(keep), Max(keep))

\* re.match(r'^[A-Z]{3}$', v) on a string without a trailing newline
MatchAZ3(v) == Len(v) = 3 /\ \A i \in 1..3 : v[i] \in AZ

\* `phrase in message`, both sequences of words
Contains(msg, phrase) ==
    \E i \in 0..(Len(msg) - Len(phrase)) : SubSeq(msg, i + 1, i + Len(phrase)) = phrase

\* --------------------------------------------------------------- messages

MsgPast == <<"Departure", "date", "cannot", "be", "in", "the", "past">>

MsgDateFormat == <<"Departure", "date", "must", "be", "in", "YYYY-MM-DD", "format">>

MsgAirportCode == <<"airport", "code", "must", "be", "3", "letters">>

MsgCityName == <<"city", "name", "must", "be", "at", "least", "2", "letters">>

MsgReturnRequired == <<"return", "date", "is", "required", "for", "multi-city", "trip">>

MsgReturnAfter == <<"return", "date", "must", "be", "after", "departure", "date">>

MsgIata == <<"IATA", "code", "must", "be", "exactly", "3", "uppercase", "letters">>

MsgOfferId == <<"Offer", "ID", "cannot", "be", "empty">>

MsgNoOutbound ==
    <<"Flight", "offer", "must", "have", "at", "least", "one", "outbound", "segment">>

MsgTotalPrice ==
    <<"Total", "price", "cannot", "be", "less", "than", "price", "per", "passenger">>

\* ValueErrors of datetime.strptime
MsgNoMatch == <<"time", "data", "does", "not", "match", "format", "'%Y-%m-%d'">>

MsgUnconverted == <<"unconverted", "data", "remains">>

MsgDayRange == <<"day", "is", "out", "of", "range", "for", "month">>

MsgYearRange == <<"year", "0", "is", "out", "of", "range">>

\* pydantic's own errors
MsgFieldRequired == <<"field", "required">>

MsgGe == <<"ensure", "this", "value", "is", "greater", "than", "or", "equal", "to">>

MsgLe == <<"ensure", "this", "value", "is", "less", "than", "or", "equal", "to">>

\* ------------------------------------------------------------------ dates

DigitVal(c) == CHOOSE n \in 0..9 : <<"0", "1", "2", "3", "4", "5", "6", "7", "8", "9">>[n + 1] = c

IsLeap(y) == (y % 4 = 0 /\ y % 100 # 0) \/ y % 400 = 0

DaysInMonth(y, m) ==
    IF m = 2 THEN (IF IsLeap(y) THEN 29 ELSE 28)
    ELSE IF m \in {4, 6, 9, 11} THEN 30 ELSE 31

\* date.__lt__: dates compare as (year, month, day)
DateLt(a, b) ==
    \/ a[1] < b[1]
    \/ a[1] = b[1] /\ a[2] < b[2]
    \/ a[1] = b[1] /\ a[2] = b[2] /\ a[3] < b[3]

DateGe(a, b) == ~DateLt(a, b)

IsDigitAt(s, i) == i <= Len(s) /\ s[i] \in Digits

IsCharAt(s, i, c) == i <= Len(s) /\ s[i] = c

\* Number of characters the directive %m, (1[0-2]|0[1-9]|[1-9]), takes at i
\* when the pattern goes on with c after it (0: no alternative fits).
MonthWidth(s, i, c) ==
    LET two == /\ IsDigitAt(s, i) /\ IsDigitAt(s, i + 1)
               /\ \/ s[i] = "1" /\ s[i + 1] \in {"0", "1", "2"}
                  \/ s[i] = "0" /\ s[i + 1] # "0"
        one == IsDigitAt(s, i) /\ s[i] # "0"
    IN  IF two /\ IsCharAt(s, i + 2, c) THEN 2
        ELSE IF one /\ IsCharAt(s, i + 1, c) THEN 1
        ELSE 0

\* Number of characters the closing directive %d,
\* (3[01]|[12]\d|0[1-9]|[1-9]| [1-9]), takes at i: the first alternative
\* that fits, nothing follows it in the pattern.
DayWidth(s, i) ==
    IF IsCharAt(s, i, "3") /\ IsDigitAt(s, i + 1) /\ s[i + 1] \in {"0", "1"} THEN 2
    ELSE IF IsDigitAt(s, i) /\ s[i] \in {"1", "2"} /\ IsDigitAt(s, i + 1) THEN 2
    ELSE IF IsCharAt(s, i, "0") /\ IsDigitAt(s, i + 1) /\ s[i + 1] # "0" THEN 2
    ELSE IF IsDigitAt(s, i) /\ s[i] # "0" THEN 1
    ELSE IF IsCharAt(s, i, " ") /\ IsDigitAt(s, i + 1) /\ s[i + 1] # "0" THEN 2
    ELSE 0

\* int() of the digits (and blanks) of s[i..i+w-1]
IntAt(s, i, w) ==
    LET RECURSIVE Go(_, _)
        Go(k, acc) ==
            IF k = w THEN acc
            ELSE Go(k + 1, IF s[i + k] \in Digits THEN 10 * acc + DigitVal(s[i + k]) ELSE acc)
    IN  Go(0, 0)

\* datetime.strptime(s, '%Y-%m-%d').date(): the date, or the ValueError.
Strptime(s) ==
    LET yOk == (\A i \in 1..4 : IsDigitAt(s, i)) /\ IsCharAt(s, 5, "-")
        mw  == IF yOk THEN MonthWidth(s, 6, "-") ELSE 0
        dAt == 6 + mw + 1
        dw  == IF mw > 0 THEN DayWidth(s, dAt) ELSE 0
        y   == IntAt(s, 1, 4)
        m   == IntAt(s, 6, mw)
        d   == IntAt(s, dAt, dw)
    IN  IF dw = 0 THEN [ok |-> FALSE, err |-> MsgNoMatch]
        ELSE IF dAt + dw - 1 # Len(s) THEN [ok |-> FALSE, err |-> MsgUnconverted]
        ELSE IF y = 0 THEN [ok |-> FALSE, err |-> MsgYearRange]
        ELSE IF d > DaysInMonth(y, m) THEN [ok |-> FALSE, err |-> MsgDayRange]
        ELSE [ok |-> TRUE, date |-> <<y, m, d>>]

\* The wall clock: a calendar date and whether midnight has passed ("tod").
\* date.today() is the date part.
Today(clock) == clock.date

NextDay(dt) ==
    IF dt[3] < DaysInMonth(dt[1], dt[2]) THEN <<dt[1], dt[2], dt[3] + 1>>
    ELSE IF dt[2] < 12 THEN <<dt[1], dt[2] + 1, 1>>
    ELSE <<dt[1] + 1, 1, 1>>

\* Mutant: the comparison made against the current date-time instead of the
\* current date (the parsed date standing for its midnight).
InPast_DateTime(date_obj, clock) ==
    \/ DateLt(date_obj, clock.date)
    \/ date_obj = clock.date /\ clock.tod > 0

\* `date_obj < date.today()`
InPast(date_obj, clock) == DateLt(date_obj, Today(clock))

\* ------------------------------------------------------------ FlightQuery

ONE_WAY == "one_way"

ROUND_TRIP == "round_trip"

MULTI_CITY == "multi_city"

ADULT == "adult"

CHILD == "child"

INFANT == "infant"

\* passengers: Field(ge=1, le=9)
PassengersGe == 1

PassengersLe == 9

Accept(v) == [ok |-> TRUE, value |-> v]

Reject(msg) == [ok |-> FALSE, err |-> msg]

\* The `except ValueError as e` clause of validate_departure_date.
DepartureExcept(e) ==
    IF Contains(e, <<"does", "not", "match">>) THEN MsgDateFormat ELSE e

\* @validator('departure_date')
validate_departure_date(v, clock) ==
    IF Truthy(v)
    THEN LET parsed == Strptime(The(v))
         IN  IF parsed.ok
             THEN IF InPast(parsed.date, clock)
                  THEN Reject(DepartureExcept(MsgPast))
                  ELSE Accept(v)
             ELSE Reject(DepartureExcept(parsed.err))
    ELSE Accept(v)

\* Mutant: the checks made on the normalized string, the raw string returned.
validate_airport_codes_RawReturned(v) ==
    IF Truthy(v)
    THEN LET u == Upper(Strip(The(v)))
         IN  IF Len(u) = 3
             THEN IF ~MatchAZ3(u) THEN Reject(MsgAirportCode) ELSE Accept(v)
             ELSE IF Len(u) < 2 THEN Reject(MsgCityName)
             ELSE Accept(v)
    ELSE Accept(v)

\* @validator('origin', 'destination')
validate_airport_codes(v) ==
    IF Truthy(v)
    THEN LET u == Upper(Strip(The(v)))
         IN  IF Len(u) = 3
             THEN IF ~MatchAZ3(u) THEN Reject(MsgAirportCode) ELSE Accept(Some(u))
             ELSE IF Len(u) < 2 THEN Reject(MsgCityName)
             ELSE Accept(Some(u))
    ELSE Accept(v)

\* The ge / le constraints of the passengers field.
validate_passengers(n) ==
    IF n < PassengersGe THEN Reject(MsgGe)
    ELSE IF n > PassengersLe THEN Reject(MsgLe)
    ELSE Accept(n)

\* [PassengerType.ADULT] * n
Adults(n) == [i \in 1..n |-> ADULT]

\* values['passenger_types'] = ...
SetItem(values, key, v) ==
    [k \in DOMAIN values \cup {key} |-> IF k = key THEN v ELSE values[k]]

\* Mutant: `dep_date > ret_date`, a same-day return let through.
DepartureAfterReturn(dep_date, ret_date) == DateLt(ret_date, dep_date)

\* The date comparison of the root validator: `dep_date >= ret_date`.
DepartureNotBeforeReturn(dep_date, ret_date) == DateGe(dep_date, ret_date)

\* Mutant: a mismatched list is padded or cut to the passenger count instead
\* of being replaced.
ReconcilePassengers_Padded(values) ==
    LET passengers == Get(values, "passengers", 1)
        passenger_types == Get(values, "passenger_types", <<>>)
    IN  IF Len(passenger_types) # passengers
        THEN SetItem(values, "passenger_types",
                     [i \in 1..passengers |->
                         IF i <= Len(passenger_types) THEN passenger_types[i] ELSE ADULT])
        ELSE values

\* The passenger reconciliation of the root validator.
ReconcilePassengers(values) ==
    LET passengers == Get(values, "passengers", 1)
        passenger_types == Get(values, "passenger_types", <<>>)
    IN  IF Len(passenger_types) # passengers
        THEN SetItem(values, "passenger_types", Adults(passengers))
        ELSE values

\* Mutant: the rule applied to the trip type its message names.
ReturnDateMissing_MultiCity(trip_type, return_date) ==
    trip_type = Some(MULTI_CITY) /\ ~Truthy(return_date)

\* `trip_type == TripType.ROUND_TRIP and not return_date`
ReturnDateMissing(trip_type, return_date) ==
    trip_type = Some(ROUND_TRIP) /\ ~Truthy(return_date)

\* @root_validator of FlightQuery; `values` holds the fields that passed.
validate_trip_consistency(values) ==
    LET trip_type == Get(values, "trip_type", None)
        return_date == Get(values, "return_date", None)
        departure_date == Get(values, "departure_date", None)
    IN  IF ReturnDateMissing(trip_type, return_date)
        THEN Reject(MsgReturnRequired)
        ELSE IF Truthy(departure_date) /\ Truthy(return_date)
        THEN LET dep == Strptime(The(departure_date))
                 ret == Strptime(The(return_date))
             IN  IF ~dep.ok THEN Reject(dep.err)
                 ELSE IF ~ret.ok THEN Reject(ret.err)
                 ELSE IF DepartureNotBeforeReturn(dep.date, ret.date)
                 THEN Reject(MsgReturnAfter)
                 ELSE Accept(ReconcilePassengers(values))
        ELSE Accept(ReconcilePassengers(values))

\* The `values` dict handed to a root validator: the fields that passed
\* their own validation (a field that failed is left out).
Values(fields) ==
    [k \in {f \in DOMAIN fields : fields[f].ok} |-> fields[k].value]

\* pydantic (v1) model construction: every field is validated, the error of
\* a field that fails is collected; then the root validator runs on the
\* values that are left (skip_on_failure is off) and its error is collected
\* too, under the location __root__.  The record exists only when no error
\* was collected.  `fields`: what each field's validation gave; `after`:
\* what the root validator gave on Values(fields).
Construct(fields, after) ==
    LET good == {k \in DOMAIN fields : fields[k].ok}
        errors == {[loc |-> k, msg |-> fields[k].err] : k \in DOMAIN fields \ good}
                      \cup (IF after.ok THEN {} ELSE {[loc |-> "__root__", msg |-> after.err]})
    IN  [ok |-> errors = {},
         errors |-> errors,
         obj |-> IF errors = {} THEN Some(after.value) ELSE None]

\* FlightQuery(**raw), constructed while the wall clock reads `clock`.
\* passenger_types = None stands for "not supplied" (default_factory).
FlightQuery(raw, clock) ==
    LET fields ==
            [origin |-> validate_airport_codes(raw.origin),
             destination |-> validate_airport_codes(raw.destination),
             departure_date |-> validate_departure_date(raw.departure_date, clock),
             return_date |-> Accept(raw.return_date),
             passengers |-> validate_passengers(raw.passengers),
             passenger_types |->
                 Accept(IF raw.passenger_types = None THEN <<ADULT>>
                        ELSE The(raw.passenger_types)),
             trip_type |-> Accept(Some(raw.trip_type))]
    IN  Construct(fields, validate_trip_consistency(Values(fields)))

\* ---------------------------------------------------------------- Airport

\* @validator('iata_code')
validate_iata_code(v) ==
    LET u == Strip(Upper(v))
    IN  IF ~MatchAZ3(u) THEN Reject(MsgIata) ELSE Accept(u)

\* A required field (Field(...)) that the caller left out.
FieldRequired == Reject(MsgFieldRequired)

\* Airport(iata_code=..., name=..., city=..., country=..., country_code=...);
\* Airport has no root validator.
Airport(raw) ==
    LET fields ==
            [iata_code |-> IF raw.iata_code = None THEN FieldRequired
                           ELSE validate_iata_code(The(raw.iata_code))]
    IN  Construct(fields, Accept(Values(fields)))

\* ------------------------------------------------------------ FlightOffer

\* @validator('offer_id')
validate_offer_id(v) ==
    IF v = <<>> \/ Len(Strip(v)) = 0 THEN Reject(MsgOfferId) ELSE Accept(Strip(v))

\* Mutant: the two prices compared the wrong way round.
TotalAbovePerPassenger(total_price, price_per_passenger) ==
    total_price > price_per_passenger

\* `total_price < price_per_passenger`
TotalBelowPerPassenger(total_price, price_per_passenger) ==
    total_price < price_per_passenger

\* `if not outbound`
NoOutbound(outbound) == outbound = <<>>

\* @root_validator of FlightOffer
validate_flight_logic(values) ==
    LET outbound == Get(values, "outbound_segments", <<>>)
        total_price == Get(values, "total_price", 0)
        price_per_passenger == Get(values, "price_per_passenger", 0)
    IN  IF NoOutbound(outbound) THEN Reject(MsgNoOutbound)
        ELSE IF /\ total_price > 0 /\ price_per_passenger > 0
                /\ TotalBelowPerPassenger(total_price, price_per_passenger)
        THEN Reject(MsgTotalPrice)
        ELSE Accept(values)

\* FlightOffer(**raw)
FlightOffer(raw) ==
    LET fields ==
            [offer_id |-> IF raw.offer_id = None THEN FieldRequired
                          ELSE validate_offer_id(The(raw.offer_id)),
             total_price |-> Accept(raw.total_price),
             price_per_passenger |-> Accept(raw.price_per_passenger),
             outbound_segments |-> IF raw.outbound_segments = None THEN FieldRequired
                                   ELSE Accept(The(raw.outbound_segments))]
    IN  Construct(fields, validate_flight_logic(Values(fields)))

\* ---------------------------------------------------------- SearchResults

\* sum(prices)
RECURSIVE Sum(_)
Sum(prices) == IF prices = <<>> THEN 0 ELSE Head(prices) + Sum(Tail(prices))

RECURSIVE Gcd(_, _)
Gcd(a, b) == IF b = 0 THEN a ELSE Gcd(b, a % b)

Abs(a) == IF a < 0 THEN -a ELSE a

\* The float a / b (b > 0), kept exact as a fraction in lowest terms.
Div(a, b) ==
    LET g == Gcd(Abs(a), b)
    IN  [num |-> a \div g, den |-> b \div g]

\* `if flights:`
HasFlights(flights) == flights # <<>>

\* @root_validator of SearchResults
calculate_statistics(values) ==
    LET flights == Get(values, "flights", <<>>)
    IN  IF HasFlights(flights)
        THEN LET prices == [i \in 1..Len(flights) |-> flights[i].total_price]
                 range == {prices[i] : i \in 1..Len(prices)}
             IN  Accept(SetItem(SetItem(SetItem(SetItem(values,
                     "min_price", Some(Min(range))),
                     "max_price", Some(Max(range))),
                     "average_price", Some(Div(Sum(prices), Len(prices)))),
                     "total_results", Len(flights)))
        ELSE Accept(values)

\* SearchResults(flights=..., search_id=..., query_parameters=..., and the
\* statistics fields as the caller passed them)
SearchResults(raw) ==
    LET fields ==
            [flights |-> Accept(raw.flights),
             total_results |-> Accept(raw.total_results),
             min_price |-> Accept(raw.min_price),
             max_price |-> Accept(raw.max_price),
             average_price |-> Accept(raw.average_price)]
    IN  Construct(fields, calculate_statistics(Values(fields)))

\* ----------------------------------------------------------------- inputs

\* All strings over `chars` of length at most n.
StringsUpTo(chars, n) == UNION {[1..k -> chars] : k \in 0..n}

\* All lists over `items` of length at most n.
ListsUpTo(items, n) == UNION {[1..k -> items] : k \in 0..n}

\* origin: None, " lax ", "l1x", "a", "la"
OriginInputs ==
    {None, Some(<<" ", "l", "a", "x", " ">>), Some(<<"l", "1", "x">>), Some(<<"a">>), Some(<<"l", "a">>)}

\* destination: "sfo", "paris"
DestinationInputs == {Some(<<"s", "f", "o">>), Some(<<"p", "a", "r", "i", "s">>)}

\* departure_date: None, "", "2025-12-31", "2026-01-01", "2026-02-30",
\* "2026/01/01"
DepartureInputs ==
    {None, Some(<<>>),
     Some(<<"2", "0", "2", "5", "-", "1", "2", "-", "3", "1">>),
     Some(<<"2", "0", "2", "6", "-", "0", "1", "-", "0", "1">>),
     Some(<<"2", "0", "2", "6", "-", "0", "2", "-", "3", "0">>),
     Some(<<"2", "0", "2", "6", "/", "0", "1", "/", "0", "1">>)}

\* return_date: None, "2025-12-31", "2026-1-1", "2026-01-011"
ReturnInputs ==
    {None,
     Some(<<"2", "0", "2", "5", "-", "1", "2", "-", "3", "1">>),
     Some(<<"2", "0", "2", "6", "-", "1", "-", "1">>),
     Some(<<"2", "0", "2", "6", "-", "0", "1", "-", "0", "1", "1">>)}

PassengersInputs == {PassengersGe - 1, 1, 2, PassengersLe + 1}

PassengerTypesInputs ==
    {None, Some(<<CHILD>>), Some(<<INFANT, CHILD>>)}

TripTypes == {ONE_WAY, ROUND_TRIP, MULTI_CITY}

FlightQueryInputs ==
    [origin : OriginInputs, destination : DestinationInputs,
     departure_date : DepartureInputs, return_date : ReturnInputs,
     passengers : PassengersInputs, passenger_types : PassengerTypesInputs,
     trip_type : TripTypes]

CodeChars == {"a", "X", "1", " "}

AirportInputs == [iata_code : {None} \cup {Some(c) : c \in StringsUpTo(CodeChars, MaxCodeLen)}]

\* offer_id: not supplied, "", " ", " X1 "
OfferIdInputs == {None, Some(<<>>), Some(<<" ">>), Some(<<" ", "X", "1", " ">>)}

PriceInputs == {-1, 0, 1, 2, 3}

\* A segment list is told apart by its length only.
SegmentInputs == {None} \cup {Some(l) : l \in ListsUpTo({"segment"}, MaxSegments)}

FlightOfferInputs ==
    [offer_id : OfferIdInputs, total_price : PriceInputs,
     price_per_passenger : PriceInputs, outbound_segments : SegmentInputs]

\* The offers of a result list, told apart by their total_price.
OfferPrices == {0, 1, 2, 5}

\* A statistic as the caller may pass it: left out (None, 0), or a stale
\* value.
SearchResultsInputs ==
    [flights : ListsUpTo([total_price : OfferPrices], MaxFlights),
     total_results : {0, 4},
     min_price : {None, Some(7)},
     max_price : {None, Some(7)},
     average_price : {None, Some(Div(7, 1))}]

\* ---------------------------------------------------------- state machine

\* call:   the constructor call whose record the caller holds, or None
\* result: what that call returned or raised, or None
\* prev:   what the call before it returned, when it was a FlightQuery call
\*         with the same raw field values, or None
\* now:    the wall clock
Init ==
    /\ now = [date |-> <<2025, 12, 31>>, tod |-> 0, step |-> 0]
    /\ call = None
    /\ result = None
    /\ prev = None

\* The wall clock moves on by half a day.
Tick ==
    /\ now.step < MaxTicks
    /\ now' = IF now.tod = 0
              THEN [now EXCEPT !.tod = 1, !.step = @ + 1]
              ELSE [date |-> NextDay(now.date), tod |-> 0, step |-> now.step + 1]
    /\ UNCHANGED <<call, result, prev>>

\* The caller constructs a FlightQuery: from fresh raw values, or once more
\* from the raw values of the FlightQuery call it has just made.
FlightQueryInit ==
    /\ \E raw \in (IF call = None THEN FlightQueryInputs
                   ELSE IF The(call).op = "FlightQuery" THEN {The(call).raw} ELSE {}) :
          /\ call' = Some([op |-> "FlightQuery", raw |-> raw, at |-> now])
          /\ result' = Some(FlightQuery(raw, now))
    /\ prev' = IF call = None THEN None
               ELSE Some([at |-> The(call).at, result |-> The(result)])
    /\ UNCHANGED now

AirportInit ==
    /\ call = None
    /\ \E raw \in AirportInputs :
          /\ call' = Some([op |-> "Airport", raw |-> raw, at |-> now])
          /\ result' = Some(Airport(raw))
    /\ UNCHANGED <<now, prev>>

FlightOfferInit ==
    /\ call = None
    /\ \E raw \in FlightOfferInputs :
          /\ call' = Some([op |-> "FlightOffer", raw |-> raw, at |-> now])
          /\ result' = Some(FlightOffer(raw))
    /\ UNCHANGED <<now, prev>>

SearchResultsInit ==
    /\ call = None
    /\ \E raw \in SearchResultsInputs :
          /\ call' = Some([op |-> "SearchResults", raw |-> raw, at |-> now])
          /\ result' = Some(SearchResults(raw))
    /\ UNCHANGED <<now, prev>>

\* The caller drops the record (or the error) it holds.
Discard ==
    /\ call # None
    /\ call' = None
    /\ result' = None
    /\ prev' = None
    /\ UNCHANGED now

Next ==
    \/ Tick
    \/ FlightQueryInit
    \/ AirportInit
    \/ FlightOfferInit
    \/ SearchResultsInit
    \/ Discard

Spec == Init /\ [][Next]_vars

\* ----------------------------------------------------------------- claims

IsCall(op) == call # None /\ The(call).op = op

Raw == The(call).raw

At == The(call).at

Res == The(result)

Obj == The(Res.obj)

\* The construction failed and one of its messages contains the phrase.
FailsWith(res, phrase) == ~res.ok /\ \E e \in res.errors : Contains(e.msg, phrase)

\* No error is reported for the field (or for __root__).
Passes(res, loc) == \A e \in res.errors : e.loc # loc

\* No reported message contains the phrase.
Silent(res, phrase) == \A e \in res.errors : ~Contains(e.msg, phrase)

PhrasePast == <<"past">>

PhraseCannotBePast == <<"cannot", "be", "in", "the", "past">>

PhraseDateFormat == <<"must", "be", "in", "YYYY-MM-DD", "format">>

PhraseAirportCode == <<"airport", "code", "must", "be", "3", "letters">>

PhraseCityName == <<"city", "name", "must", "be", "at", "least", "2", "letters">>

PhraseReturnRequired == <<"return", "date", "is", "required">>

PhraseReturnRequiredRoundTrip ==
    <<"return", "date", "is", "required", "for", "round-trip", "trip">>

PhraseReturnAfter == <<"return", "date", "must", "be", "after", "departure", "date">>

PhraseNoOutbound == <<"must", "have", "at", "least", "one", "outbound", "segment">>

PhraseTotalPrice ==
    <<"total", "price", "cannot", "be", "less", "than", "price", "per", "passenger">>

\* The string is supplied and parses as a calendar date.
Parses(o) == o # None /\ Strptime(The(o)).ok

DateOf(o) == Strptime(The(o)).date

\* origin, destination, departure_date and passengers each pass their own
\* field check.
FieldsPass(res) ==
    /\ Passes(res, "origin") /\ Passes(res, "destination")
    /\ Passes(res, "departure_date") /\ Passes(res, "passengers")

\* origin, destination and passengers each pass their own field check.
OthersPass(res) ==
    Passes(res, "origin") /\ Passes(res, "destination") /\ Passes(res, "passengers")

C2_PastDepartureRejected ==
    IsCall("FlightQuery") /\ Parses(Raw.departure_date) =>
        IF DateLt(DateOf(Raw.departure_date), At.date)
        THEN FailsWith(Res, PhrasePast)
        ELSE /\ Passes(Res, "departure_date")
             /\ Res.ok => Obj.departure_date = Raw.departure_date

C2_Witness ==
    /\ IsCall("FlightQuery") /\ Parses(Raw.departure_date)
    /\ DateOf(Raw.departure_date) = At.date /\ At.tod = 1 /\ Res.ok

C4_MalformedDateRejected ==
    IsCall("FlightQuery") /\ OthersPass(Res) =>
        \A d \in {Raw.departure_date, Raw.return_date} :
            d # None /\ ~Strptime(The(d)).ok => FailsWith(Res, PhraseDateFormat)

\* C5: a constructed FlightQuery has as many passenger_types as passengers:
\* a supplied list (or the default one) of another length is replaced by
\* that many "adult" entries, a list of that length is kept.
C5_PassengerTypesReconciled ==
    IsCall("FlightQuery") /\ Res.ok =>
        LET supplied == IF Raw.passenger_types = None THEN <<ADULT>>
                        ELSE The(Raw.passenger_types)
        IN  /\ Obj.passengers = Raw.passengers
            /\ Len(Obj.passenger_types) = Obj.passengers
            /\ Len(supplied) # Raw.passengers =>
                  \A i \in 1..Raw.passengers : Obj.passenger_types[i] = ADULT
            /\ Len(supplied) = Raw.passengers => Obj.passenger_types = supplied

C5_Witness ==
    /\ IsCall("FlightQuery") /\ Res.ok
    /\ Raw.passengers = 2 /\ Raw.passenger_types = Some(<<CHILD>>)
    /\ Obj.passenger_types = <<ADULT, ADULT>>

\* The trimmed, uppercased form of a raw code.
Trimmed(s) ==
    LET up == [i \in 1..Len(s) |-> UpperChar(s[i])]
        RECURSIVE Lead(_)
        Lead(t) == IF t # <<>> /\ Head(t) = " " THEN Lead(Tail(t)) ELSE t
        RECURSIVE Trail(_)
        Trail(t) == IF t # <<>> /\ t[Len(t)] = " " THEN Trail(SubSeq(t, 1, Len(t) - 1)) ELSE t
    IN  Trail(Lead(up))

ThreeLetters(u) == Len(u) = 3 /\ \A i \in 1..3 : \E j \in 1..26 : UpperLetters[j] = u[i]

\* C6: origin, destination and Airport.iata_code are trimmed and uppercased;
\* a result of length 3 passes only if it is three letters A-Z and is stored
\* in that form; for origin and destination a result of length 1 is rejected
\* and a result of length 2 or more than 3 passes (and is stored trimmed and
\* uppercased as well); for iata_code every result that is not three letters
\* is rejected.
C6_LocationCodes ==
    /\ IsCall("FlightQuery") =>
          \A f \in {"origin", "destination"} :
              Truthy(Raw[f]) =>
                  LET u == Trimmed(The(Raw[f]))
                  IN  /\ Len(u) = 3 => (Passes(Res, f) <=> ThreeLetters(u))
                      /\ Len(u) = 1 => ~Passes(Res, f)
                      /\ Len(u) >= 2 /\ Len(u) # 3 => Passes(Res, f)
                      /\ Res.ok /\ Len(u) >= 2 => Obj[f] = Some(u)
    /\ IsCall("Airport") /\ Raw.iata_code # None =>
          LET u == Trimmed(The(Raw.iata_code))
          IN  /\ Res.ok <=> ThreeLetters(u)
              /\ Res.ok => Obj.iata_code = u

C6_Witness ==
    /\ IsCall("FlightQuery") /\ Res.ok
    /\ Raw.origin = Some(<<" ", "l", "a", "x", " ">>)
    /\ Obj.origin = Some(<<"L", "A", "X">>)

\* The total of the offers' prices.
RECURSIVE TotalPrice(_)
TotalPrice(flights) ==
    IF flights = <<>> THEN 0
    ELSE flights[Len(flights)].total_price + TotalPrice(SubSeq(flights, 1, Len(flights) - 1))

\* The statistics of a non-empty offer list, derived from the list.
Derived(obj) ==
    LET n == Len(obj.flights)
        P == {obj.flights[i].total_price : i \in 1..n}
    IN  /\ obj.min_price # None /\ The(obj.min_price) \in P
        /\ \A q \in P : The(obj.min_price) <= q
        /\ obj.max_price # None /\ The(obj.max_price) \in P
        /\ \A q \in P : The(obj.max_price) >= q
        /\ obj.average_price # None
        /\ The(obj.average_price).num * n = The(obj.average_price).den * TotalPrice(obj.flights)
        /\ obj.total_results = n

\* The statistics of an empty offer list: all absent, count 0.
Absent(obj) ==
    /\ obj.min_price = None /\ obj.max_price = None /\ obj.average_price = None
    /\ obj.total_results = 0

\* C7: every constructed SearchResults has statistics derived from its offer
\* list, whatever values the caller passed: min, max, average and count of a
\* non-empty list; all absent and total_results 0 for an empty list.
C7_StatisticsDerived ==
    IsCall("SearchResults") /\ Res.ok =>
        IF Obj.flights # <<>> THEN Derived(Obj) ELSE Absent(Obj)

\* C8: a constructed FlightOffer has a non-empty outbound_segments list and,
\* when both prices are positive, total_price >= price_per_passenger; an
\* empty outbound_segments list, or positive prices with total_price below
\* price_per_passenger, is rejected.
C8_OfferSanity ==
    IsCall("FlightOffer") =>
        /\ Res.ok =>
              /\ Len(Obj.outbound_segments) >= 1
              /\ Obj.total_price > 0 /\ Obj.price_per_passenger > 0 =>
                    Obj.total_price >= Obj.price_per_passenger
        /\ Raw.outbound_segments = Some(<<>>) => ~Res.ok
        /\ /\ Raw.total_price > 0 /\ Raw.price_per_passenger > 0
           /\ Raw.total_price < Raw.price_per_passenger
           => ~Res.ok

C8_Witness ==
    /\ IsCall("FlightOffer") /\ ~Res.ok
    /\ Raw.offer_id = Some(<<" ", "X", "1", " ">>)
    /\ Raw.outbound_segments # None /\ Len(The(Raw.outbound_segments)) = 1
    /\ Raw.total_price = 1 /\ Raw.price_per_passenger = 2

\* C9: every rejection by a FlightQuery or FlightOffer validator carries,
\* character for character, the text given for the violated rule (the rules
\* for which the validators have a message of their own).
C9_LiteralMessages ==
    /\ IsCall("FlightQuery") /\ Passes(Res, "passengers") =>
          /\ \A e \in Res.errors :
                /\ e.loc \in {"origin", "destination"} =>
                      Contains(e.msg, PhraseAirportCode) \/ Contains(e.msg, PhraseCityName)
                /\ e.loc = "departure_date" /\ Parses(Raw.departure_date) =>
                      Contains(e.msg, PhraseCannotBePast)
                /\ e.loc = "departure_date" /\ e.msg = MsgDateFormat =>
                      Contains(e.msg, PhraseDateFormat)
          /\ Raw.trip_type = ROUND_TRIP /\ Raw.return_date = None =>
                FailsWith(Res, PhraseReturnRequiredRoundTrip)
          /\ /\ Parses(Raw.departure_date) /\ Parses(Raw.return_date)
             /\ Passes(Res, "departure_date")
             /\ DateGe(DateOf(Raw.departure_date), DateOf(Raw.return_date))
             => FailsWith(Res, PhraseReturnAfter)
    /\ IsCall("FlightOffer") =>
          /\ Raw.outbound_segments = Some(<<>>) => FailsWith(Res, PhraseNoOutbound)
          /\ /\ Raw.outbound_segments # None /\ Raw.outbound_segments # Some(<<>>)
             /\ Raw.total_price > 0 /\ Raw.price_per_passenger > 0
             /\ Raw.total_price < Raw.price_per_passenger
             => FailsWith(Res, PhraseTotalPrice)

\* C10 (as stated): two constructions of FlightQuery from the same raw field
\* values give the same outcome, whenever each of them runs.  Stated here
\* for queries whose origin, destination and passengers are well-formed.
C10_AsStated == prev # None /\ OthersPass(Res) => The(prev).result = Res

\* C10 (amended): two constructions of FlightQuery from the same raw field
\* values on the same calendar date give the same outcome.
C10_SameDaySameOutcome ==
    prev # None /\ The(prev).at.date = At.date => The(prev).result = Res

C10_Witness ==
    /\ prev # None /\ The(prev).at.date = At.date /\ The(prev).at.tod # At.tod
    /\ Parses(Raw.departure_date) /\ DateOf(Raw.departure_date) = At.date
    /\ Res.ok

====
